---- MODULE Spec2Model ----
(***************************************************************************)
(* Verification model of the multi-KB RAG service (Pond500/rag_mcp).       *)
(*                                                                         *)
(*   Spec          the RAG service operations over the vector store, one   *)
(*                 service call per step.                                  *)
(*   SpecDispatch  the tool dispatcher (mcp/server.py execute_mcp_tool)    *)
(*                 with the tool tracer around the service operations.     *)
(*                 The dispatcher is a coroutine that never awaits, so one *)
(*                 invocation is in flight at a time.                      *)
(*   SpecChat      ChatEngine.chat / clear_history called from several     *)
(*                 host threads; the engine takes no lock, so callers      *)
(*                 interleave at statement boundaries.                     *)
(*   SpecProg      ProgressiveDocumentProcessor.extract_with_smart_routing,*)
(*                 one loop iteration per step, extractor outcomes drawn   *)
(*                 from small sets.                                        *)
(*   SpecDocs      a caller of create_kb, upload_document and              *)
(*                 delete_document that keeps its last two results.        *)
(*   SpecFusion    one call of Retriever._rrf_fusion.                      *)
(*   SpecDedup     one call of RAGService._deduplicate_results.            *)
(*   SpecChunk     one call of DocumentProcessor.chunk_text, the while     *)
(*                 loop of _split_by_characters one pass per step.         *)
(*   SpecTrace     one invocation of execute_mcp_tool with a Langfuse      *)
(*                 client whose calls can fail.                            *)
(*   SpecSanitize  the arguments a tool trace records.                     *)
(***************************************************************************)
EXTENDS Integers, Sequences, FiniteSets, Bags, TLC

\* ------------------------------------------------------------------------
\* Bounds of the model
\* ------------------------------------------------------------------------
MaxCalls == 3
MaxInvocations == 2
MaxChunks == 2
TopK == 1
MaxChatCalls == 3
NumCallers == 2
MaxClears == 1
MaxPages == 2
MaxDocCalls == 4
MaxRank == 3
MaxResults == 3
MaxChars == 3
MaxSize == 2
MaxArgs == 2

\* ------------------------------------------------------------------------
\* Domains
\* ------------------------------------------------------------------------
KBNames == {"A", "B"}
Filenames == {"f", "g"}
NoKey == "<absent>"
None == "<None>"
\* values an uploaded chunk's metadata may carry under the key "_type"
TypeKeys == {NoKey, "collection_metadata"}
SessionIds == {"s1"}
\* a session_id that is not hashable (a JSON list or object)
Unhashable == "<unhashable>"
Callers == 1..NumCallers
\* lengths in characters of the queries and of the LLM answers
MaxLen == 4
QueryLens == {1, MaxLen}
AnswerLens == {0, MaxLen}
\* configured values of chat.memory_token_limit
MemoryLimits == {1, 2}
default_memory_token_limit == 3000

\* program constant: VectorStore.upsert_documents(batch_size=100)
batch_size == 100
rrf_k == 60
sanitize_limit == 200
filter_limit == 1000

VARIABLES
    collections,     \* KB names whose collection kb_<name> exists in the store
    calls,           \* number of service calls made so far
    last,            \* the last service call: operation, arguments, result
    points,          \* bag of payloads of the points stored in KB collections
    master,          \* bag of kb_name payloads of the master_index points
    inv,             \* the dispatcher invocation in flight
    invocations,     \* number of invocations started so far
    tracer_kind,     \* which MCP tool tracer is installed
    active_traces,   \* request ids of the traces that are open
    trace_log,       \* per request id: how often opened / closed, close error
    tool_stats,      \* MCPToolTracer.tool_stats
    completed,       \* per tool: invocations whose finally block has run
    sessions,        \* ChatEngine._sessions
    memory_token_limit, \* ChatEngine.memory_token_limit
    chat,            \* per caller thread: position and locals inside chat()
    chat_calls,      \* number of chat calls started so far
    llm_order,       \* call ids in the order their LLM calls returned
    cleared,         \* number of clear_history calls so far
    prog,            \* state of one extract_with_smart_routing call
    prev,            \* the call before last, kept by a caller of SpecDocs
    fn               \* one call of a function checked on its own: its
                     \* position, its inputs and what it returned

kbVars == <<collections, points, master>>
traceVars == <<inv, invocations, tracer_kind, active_traces, trace_log,
               tool_stats, completed>>
chatVars == <<sessions, memory_token_limit, chat, chat_calls, llm_order,
              cleared>>
vars == <<collections, calls, last, points, master, inv, invocations, tracer_kind,
          active_traces, trace_log, tool_stats, completed, sessions,
          memory_token_limit, chat, chat_calls, llm_order, cleared, prog,
          prev, fn>>

\* ------------------------------------------------------------------------
\* Vector store state and payloads
\* ------------------------------------------------------------------------
\* the store as one value, so that service operations compose
Store(c, p, m) == [collections |-> c, points |-> p, master |-> m]

Descriptor(kb) ==
    [coll |-> kb, type |-> "collection_metadata", kb_name |-> kb,
     filename |-> NoKey, chunk_index |-> -1]

ChunkPayload(kb, f, i, ty) ==
    [coll |-> kb, type |-> IF ty = NoKey THEN "document" ELSE ty,
     kb_name |-> kb, filename |-> f, chunk_index |-> i]

\* the bag B without the elements that satisfy Drop
BagWithout(B, drop) ==
    [p \in DOMAIN B \ drop |-> B[p]]


\* number of points of collection kb that carry filename f
CountFile(P, kb, f) ==
    BagCardinality(BagWithout(P, {q \in DOMAIN P :
                                     ~(q.coll = kb /\ q.filename = f)}))

\* number of points of collection kb whose _type is ty
CountType(P, kb, ty) ==
    BagCardinality(BagWithout(P, {q \in DOMAIN P :
                                     ~(q.coll = kb /\ q.type = ty)}))

\* ------------------------------------------------------------------------
\* Results of service operations
\* ------------------------------------------------------------------------
\* keys: the keys of the returned map; isNone: the operation returned None
Result(keys, success, msg, kb, n) ==
    [isNone |-> FALSE, keys |-> keys, success |-> success, msg |-> msg,
     kb_name |-> kb, count |-> n]

NoneResult ==
    [isNone |-> TRUE, keys |-> {}, success |-> FALSE, msg |-> NoKey,
     kb_name |-> None, count |-> 0]

Fail(msg) == Result({"success", "message"}, FALSE, msg, None, 0)

\* "not found" in message.lower()
MsgHasNotFound(r) == r.msg \in {"kb_not_found", "doc_not_found", "exception_not_found"}

\* ------------------------------------------------------------------------
\* Collection manager, router and vector store (each takes the set F of
\* collaborator calls that fail during this call)
\* ------------------------------------------------------------------------
\* CollectionManager.collection_exists: a listing failure answers False
collection_exists(S, kb, F) ==
    IF "list" \in F THEN FALSE ELSE kb \in S.collections

\* CollectionManager.create_collection: create the collection, then upsert
\* the descriptor point; any exception becomes {success: False, message}
create_collection(S, kb, F) ==
    IF collection_exists(S, kb, F)
    THEN [S |-> S,
          result |-> Result({"success", "message", "collection_name"},
                            FALSE, "already_exists", None, 0)]
    ELSE IF "create" \in F \/ kb \in S.collections
    THEN [S |-> S, result |-> Fail("exception")]
    ELSE IF "descriptor" \in F
    THEN [S |-> Store(S.collections \cup {kb}, S.points, S.master),
          result |-> Fail("exception")]
    ELSE [S |-> Store(S.collections \cup {kb},
                      S.points (+) SetToBag({Descriptor(kb)}), S.master),
          result |-> Result({"success", "kb_name", "collection_name",
                             "description", "created_at"},
                            TRUE, NoKey, kb, 0)]

\* CollectionManager.delete_collection
delete_collection(S, kb, F) ==
    IF ~collection_exists(S, kb, F)
    THEN [S |-> S, result |-> Fail("kb_not_found")]
    ELSE IF "delete_collection" \in F
    THEN [S |-> S, result |-> Fail("exception")]
    ELSE [S |-> Store(S.collections \ {kb},
                      BagWithout(S.points, {q \in DOMAIN S.points : q.coll = kb}),
                      S.master),
          result |-> Result({"success", "message"}, TRUE, "ok", None, 0)]

\* Router.add_kb_to_master: embeds the description and upserts one point
\* into master_index; every failure is swallowed into {success: False}
add_kb_to_master(S, kb, F) ==
    IF "master_embed" \in F \/ "master_upsert" \in F
    THEN [S |-> S,
          result |-> Result({"success", "error"}, FALSE, NoKey, None, 0)]
    ELSE [S |-> Store(S.collections, S.points, S.master (+) SetToBag({kb})),
          result |-> Result({"success", "point_id"}, TRUE, NoKey, None, 0)]

\* Router.remove_kb_from_master: delete_by_filter({kb_name}) on master_index
remove_kb_from_master(S, kb, F) ==
    IF "master_delete" \in F
    THEN [S |-> S,
          result |-> Result({"success"}, FALSE, NoKey, None, 0)]
    ELSE [S |-> Store(S.collections, S.points,
                      BagWithout(S.master, {kb})),
          result |-> Result({"success"}, TRUE, NoKey, None, 0)]

\* number of batches the upsert loop sends for n points
NumBatches(n) == (n + batch_size - 1) \div batch_size

Min(a, b) == IF a < b THEN a ELSE b

\* VectorStore.upsert_documents for the n chunks of file f: embeds, then
\* upserts batch after batch; fb is the batch whose upsert fails when
\* "upsert" is in F, the batches before it stay written
upsert_documents(S, kb, f, n, ty, F, fb) ==
    LET Chunks(k) == SetToBag({ChunkPayload(kb, f, i, ty) : i \in 0..(k - 1)})
        failKeys == {"success", "error", "upserted_count", "point_ids"}
    IN  IF "upsert_embed" \in F
        THEN [S |-> S, result |-> Result(failKeys, FALSE, NoKey, None, 0)]
        ELSE IF "upsert" \in F /\ fb < NumBatches(n)
        THEN [S |-> Store(S.collections,
                          S.points (+) Chunks(Min(n, fb * batch_size)),
                          S.master),
              result |-> Result(failKeys, FALSE, NoKey, None, 0)]
        ELSE [S |-> Store(S.collections, S.points (+) Chunks(n), S.master),
              result |-> Result({"success", "upserted_count", "point_ids"},
                                TRUE, NoKey, None, n)]

delete_by_filter_first_chunk(S, kb, f, F) ==
    IF "delete" \in F
    THEN [S |-> S,
          result |-> Result({"success", "error", "deleted_count"},
                            FALSE, NoKey, None, 0)]
    ELSE [S |-> Store(S.collections,
                      BagWithout(S.points,
                                 {q \in DOMAIN S.points :
                                     /\ q.coll = kb
                                     /\ q.filename = f
                                     /\ q.chunk_index = 0}),
                      S.master),
          result |-> Result({"success", "deleted_count"}, TRUE, NoKey, None, 0)]

\* VectorStore.delete_by_filter({filename: f}) on the KB's collection
delete_by_filter(S, kb, f, F) ==
    IF "delete" \in F
    THEN [S |-> S,
          result |-> Result({"success", "error", "deleted_count"},
                            FALSE, NoKey, None, 0)]
    ELSE [S |-> Store(S.collections,
                      BagWithout(S.points,
                                 {q \in DOMAIN S.points :
                                     q.coll = kb /\ q.filename = f}),
                      S.master),
          result |-> Result({"success", "deleted_count"}, TRUE, NoKey, None, 0)]

\* Router.route: ranked is the list of master_index kb names the dense
\* search returns above the score threshold, best first
route(ranked, kb_list, top_k) ==
    LET kept == SelectSeq(ranked, LAMBDA k : kb_list = {} \/ k \in kb_list)
    IN  SubSeq(kept, 1, Min(top_k, Len(kept)))

\* ------------------------------------------------------------------------
\* RAG service: KB management
\* ------------------------------------------------------------------------
\* RAGService.create_kb: probe the embedding dimension, create the
\* collection, add the KB to the master index (its result is not read)
create_kb(S, kb, F) ==
    IF "embed" \in F
    THEN [S |-> S, result |-> Fail("exception")]
    ELSE LET c == create_collection(S, kb, F)
         IN  IF ~c.result.success
             THEN c
             ELSE [S |-> add_kb_to_master(c.S, kb, F).S,
                   result |-> Result({"success", "kb_name", "message"},
                                     TRUE, "ok", kb, 0)]

\* RAGService.delete_kb: delete the collection, then remove the master entry
delete_kb(S, kb, F) ==
    LET d == delete_collection(S, kb, F)
    IN  IF d.result.success
        THEN [S |-> remove_kb_from_master(d.S, kb, F).S,
              result |-> Result({"success", "message"}, TRUE, "ok", None, 0)]
        ELSE d

\* ------------------------------------------------------------------------
\* RAG service: documents
\* ------------------------------------------------------------------------
\* RAGService.upload_document: np pages extracted, n chunks, ty the value
\* the merged metadata carries under "_type" (NoKey: none)
upload_document(S, kb, f, np, n, ty, F, fb) ==
    IF ~collection_exists(S, kb, F)
    THEN [S |-> S, result |-> Fail("kb_not_found")]
    ELSE IF "extract" \in F
    THEN [S |-> S, result |-> Fail("exception")]
    ELSE IF np = 0
    THEN [S |-> S, result |-> Fail("extract_empty")]
    ELSE IF n = 0
    THEN [S |-> S, result |-> Fail("chunk_empty")]
    ELSE LET u == upsert_documents(S, kb, f, n, ty, F, fb)
         IN  IF u.result.success
             THEN [S |-> u.S,
                   result |-> Result({"success", "chunks_count",
                                      "chunks_created", "point_ids",
                                      "metadata", "message", "document_name",
                                      "pages_processed", "vlm_cost"},
                                     TRUE, "ok", None, u.result.count)]
             ELSE u

\* RAGService.delete_document: existence check by scroll, then delete by
\* filter; msgExc is the message kind of a raised exception
delete_document(S, kb, f, F, msgExc) ==
    IF ~collection_exists(S, kb, F)
    THEN [S |-> S, result |-> Fail("kb_not_found")]
    ELSE IF "scroll" \in F
    THEN [S |-> S, result |-> Fail(msgExc)]
    ELSE IF CountFile(S.points, kb, f) = 0
    THEN [S |-> S, result |-> Fail("doc_not_found")]
    ELSE LET d == delete_by_filter(S, kb, f, F)
         IN  IF d.result.success
             THEN [S |-> d.S,
                   result |-> Result({"success", "message", "kb_name",
                                      "filename"}, TRUE, "ok", kb, 0)]
             ELSE d

\* RAGService.update_document: delete, tolerate "not found", then upload
update_document(S, kb, f, np, n, ty, Fd, msgExc, Fu, fb) ==
    LET d == delete_document(S, kb, f, Fd, msgExc)
    IN  IF ~d.result.success /\ ~MsgHasNotFound(d.result)
        THEN d
        ELSE upload_document(d.S, kb, f, np, n, ty, Fu, fb)

\* ------------------------------------------------------------------------
\* Chat engine: sessions, history trimming, sequential chat
\* ------------------------------------------------------------------------
\* a turn {role, content, timestamp}: the content by its length, tagged
\* with the chat call that appended it
Turn(role, call, len) == [role |-> role, call |-> call, len |-> len]

NoSession == [present |-> FALSE, turns |-> <<>>]

RECURSIVE TotalChars(_)
\* sum(len(turn["content"]) for turn in history)
TotalChars(h) == IF h = <<>> THEN 0 ELSE Head(h).len + TotalChars(Tail(h))

OverLimit_per_char(chars, limit) == chars > 8 * limit

\* estimated_tokens > memory_token_limit, with estimated_tokens = chars / 4
OverLimit(chars, limit) == chars > 4 * limit

RECURSIVE TrimLoop(_, _)
\* the while loop of ChatEngine._trim_history run without interruption
TrimLoop(h, limit) ==
    IF OverLimit(TotalChars(h), limit) /\ Len(h) > 2
    THEN TrimLoop(Tail(h), limit)
    ELSE h

\* ChatEngine._trim_history
trim_history(sess, sid, limit) ==
    IF ~sess[sid].present
    THEN sess
    ELSE [sess EXCEPT ![sid].turns = TrimLoop(@, limit)]

\* ChatEngine.chat run without interruption: the sessions afterwards and
\* the model name of the response ("error" when the except branch ran)
chat_engine_chat(sess, sid, call, qlen, alen, llmOk, limit) ==
    IF sid = None
    THEN [sessions |-> sess, model |-> IF llmOk THEN "llm" ELSE "error"]
    ELSE LET s1 == IF sess[sid].present
                   THEN sess
                   ELSE [sess EXCEPT ![sid] = [present |-> TRUE,
                                               turns |-> <<>>]]
             s2 == [s1 EXCEPT ![sid].turns =
                        @ \o <<Turn("user", call, qlen),
                               Turn("assistant", call, alen)>>]
         IN  IF llmOk
             THEN [sessions |-> trim_history(s2, sid, limit), model |-> "llm"]
             ELSE [sessions |-> s1, model |-> "error"]

\* ChatEngine.clear_history: True iff the session was present
clear_history(sess, sid) ==
    [sessions |-> [sess EXCEPT ![sid] = NoSession],
     found |-> sess[sid].present]

\* ------------------------------------------------------------------------
\* RAG service: read operations, chat, health
\* ------------------------------------------------------------------------
\* the payloads of the points stored in collection kb
PointsOf(P, kb) == {q \in DOMAIN P : q.coll = kb}

\* RAGService.list_kbs over CollectionManager.list_collections
list_kbs(S, F) ==
    IF "list" \in F
    THEN Result({"success", "message", "collections"}, FALSE, "exception",
                None, 0)
    ELSE IF "info" \in F /\ S.collections # {}
    THEN Result({"success", "message", "kbs", "total"}, FALSE, "exception",
                None, 0)
    ELSE Result({"success", "kbs", "total"}, TRUE, NoKey, None,
                Cardinality(S.collections))

\* the grouping loop of list_documents: the filenames of the points whose
\* _type is "document", each with its chunks_count
docs_by_file(P, kb) ==
    LET docs == {q \in PointsOf(P, kb) : q.type = "document"}
    IN  [f \in {q.filename : q \in docs} |->
            BagCardinality([q \in {r \in docs : r.filename = f} |-> P[q]])]

\* RAGService.list_documents: one row per filename of the chunk points
list_documents(S, kb, F) ==
    LET failKeys == {"success", "message", "documents", "total"}
    IN  IF ~collection_exists(S, kb, F)
        THEN Result(failKeys, FALSE, "kb_not_found", None, 0)
        ELSE IF "scroll" \in F
        THEN Result(failKeys, FALSE, "exception", None, 0)
        ELSE Result({"success", "kb_name", "documents", "total", "limit",
                     "offset"}, TRUE, NoKey, kb,
                    Cardinality(DOMAIN docs_by_file(S.points, kb)))

\* RAGService.get_document: all points that carry the filename
get_document(S, kb, f, F) ==
    IF ~collection_exists(S, kb, F)
    THEN Fail("kb_not_found")
    ELSE IF "scroll" \in F
    THEN Fail("exception")
    ELSE IF CountFile(S.points, kb, f) = 0
    THEN Fail("doc_not_found")
    ELSE Result({"success", "document"}, TRUE, NoKey, kb,
                CountFile(S.points, kb, f))

\* RAGService.search: hits are the points the retriever returns; a failure
\* inside Retriever.retrieve is swallowed into an empty list
search(S, kb, hits, F) ==
    IF ~collection_exists(S, kb, F)
    THEN Result({"success", "message", "results"}, FALSE, "kb_not_found",
                None, 0)
    ELSE Result({"success", "kb_name", "query", "total_results", "results",
                 "formatted_context", "metadata_summary"}, TRUE, NoKey, kb,
                IF "retrieve" \in F THEN 0 ELSE Cardinality(hits))

\* RAGService.chat: the sessions afterwards and the result.  use_routing is
\* accepted and never read; the except branch has no return statement
chat_service(S, sess, kb, sid, use_routing, call, ql, al, hits, F, lim) ==
    IF kb = None
    THEN [sessions |-> sess,
          result |-> Result({"success", "message", "answer", "kb_name",
                             "sources"}, FALSE, "kb_required", None, 0)]
    ELSE LET sr == search(S, kb, hits, F)
         IN  IF sid = Unhashable
             THEN [sessions |-> sess, result |-> NoneResult]
             ELSE LET ce == chat_engine_chat(sess, sid, call, ql, al,
                                             "llm" \notin F, lim)
                  IN  [sessions |-> ce.sessions,
                       result |-> Result({"success", "answer", "kb_name",
                                          "sources", "session_id", "model",
                                          "timestamp", "tokens"}, TRUE,
                                         ce.model, kb,
                                         IF sr.success THEN sr.count ELSE 0)]

\* RAGService.clear_chat_history
clear_chat_history(sess, sid) ==
    IF sid = Unhashable
    THEN [sessions |-> sess, result |-> Fail("exception")]
    ELSE [sessions |-> clear_history(sess, sid).sessions,
          result |-> Result({"success", "message"},
                            clear_history(sess, sid).found, "ok", None, 0)]

\* RAGService.health_check: {healthy, components, timestamp}
health_check(F) ==
    Result({"healthy", "components", "timestamp"}, FALSE,
           IF "list" \in F \/ "embed" \in F THEN "unhealthy" ELSE "healthy",
           None, 0)

\* ------------------------------------------------------------------------
\* Tool tracer (MCPToolTracer, LangfuseMCPToolTracer)
\* ------------------------------------------------------------------------
Tools == {"create_kb", "delete_kb", "list_kbs", "upload_document",
          "list_documents", "get_document", "delete_document",
          "update_document", "search", "chat", "auto_routing_chat",
          "clear_history", "health"}
UnknownTool == "no_such_tool"
TracerKinds == {"mcp", "langfuse"}

ZeroStats == [total_calls |-> 0, success_count |-> 0, error_count |-> 0]

\* MCPToolTracer.record_tool_call (duration and cost sums left out)
record_tool_call(stats, tool, success) ==
    LET old == IF tool \in DOMAIN stats THEN stats[tool] ELSE ZeroStats
    IN  (tool :> [total_calls |-> old.total_calls + 1,
                  success_count |-> old.success_count
                                    + (IF success THEN 1 ELSE 0),
                  error_count |-> old.error_count
                                  + (IF success THEN 0 ELSE 1)]) @@ stats

\* the success flag MCPToolTracer.end_tool_trace derives:
\* error is None and (result.get("success", False) if result else False)
TraceSuccess(result, error) ==
    /\ error = None
    /\ ~result.isNone
    /\ "success" \in result.keys
    /\ result.success

\* end_tool_trace: the tool statistics afterwards.  The Langfuse tracer
\* overrides end_tool_trace and does not call record_tool_call
end_tool_trace(kind, stats, tool, result, error) ==
    IF kind = "mcp"
    THEN record_tool_call(stats, tool, TraceSuccess(result, error))
    ELSE stats

\* ------------------------------------------------------------------------
\* Service calls: one RAG service operation per step; the call and its
\* result are kept in last
\* ------------------------------------------------------------------------
TheStore == Store(collections, points, master)

SetStore(S) ==
    /\ collections' = S.collections
    /\ points' = S.points
    /\ master' = S.master

\* at most one collaborator call fails during one service call
OneOf(Steps) == {{}} \cup {{x} : x \in Steps}

CreateSteps == {"embed", "list", "create", "descriptor", "master_embed",
                "master_upsert"}
DeleteKbSteps == {"list", "delete_collection", "master_delete"}
UploadSteps == {"list", "extract", "upsert_embed", "upsert"}
DeleteDocSteps == {"list", "scroll", "delete"}
ReadSteps == {"list", "scroll", "info"}
ChatSteps == {"list", "retrieve", "llm"}
HealthSteps == {"list", "embed"}
ExcMessages == {"exception", "exception_not_found"}
FailBatches == 0..(NumBatches(MaxChunks) - 1)
ChatSids == SessionIds \cup {None, Unhashable}

\* what an extraction and chunking can deliver: np pages, n chunks, and the
\* value ty the merged metadata carries under "_type"
Contents ==
    {[np |-> 0, n |-> 0, ty |-> NoKey], [np |-> 1, n |-> 0, ty |-> NoKey]}
    \cup {[np |-> 1, n |-> k, ty |-> t] : k \in 1..MaxChunks, t \in TypeKeys}

\* the message of the exception a failing scroll raises
MessagesOf(F) == IF "scroll" \in F THEN ExcMessages ELSE {"exception"}

\* the retriever returns at most TopK of the collection's points; it is
\* not reached without a KB name or when the existence check fails, and
\* its result is dropped when the retrieval fails
Hits(P, kb, F) ==
    IF kb = None \/ F \cap {"list", "retrieve"} # {} THEN {{}}
    ELSE {h \in SUBSET PointsOf(P, kb) : Cardinality(h) <= TopK}

\* the failures that can occur in the upload half of update_document: none
\* is reached when the delete half ends the call
UploadFailures(S, kb, f, Fd, m) ==
    LET d == delete_document(S, kb, f, Fd, m)
    IN  IF ~d.result.success /\ ~MsgHasNotFound(d.result)
        THEN {{}}
        ELSE OneOf(UploadSteps)

\* the session ids and text lengths a chat call can bring: without a KB
\* name the call returns before it reads them, and an unhashable session
\* id ends the call before the texts are used
ChatInputs(kb, sids, qlens, alens) ==
    IF kb = None
    THEN {[sid |-> None, qlen |-> 0, alen |-> 0]}
    ELSE {[sid |-> Unhashable, qlen |-> 0, alen |-> 0]}
         \cup {[sid |-> i, qlen |-> q, alen |-> a] :
                   i \in sids \ {Unhashable}, q \in qlens, a \in alens}

KeepChat == UNCHANGED chatVars
KeepSessions == UNCHANGED <<memory_token_limit, chat, chat_calls, llm_order,
                            cleared>>

NoCall == [op |-> None, kb |-> None, filename |-> NoKey, failed |-> {},
           result |-> NoneResult, hits |-> {}]

\* the caller keeps the result
Record(op, kb, f, F, r) ==
    last' = [op |-> op, kb |-> kb, filename |-> f, failed |-> F, result |-> r,
             hits |-> {}]

\* the caller keeps the result of a search or chat with the stored points
\* its results (sources) were formatted from: none when the search failed
RecordHits(op, kb, F, r, sr, hits) ==
    last' = [op |-> op, kb |-> kb, filename |-> NoKey, failed |-> F,
             result |-> r, hits |-> IF sr.success THEN hits ELSE {}]

DoCreateKb ==
    /\ \E kb \in KBNames, F \in OneOf(CreateSteps) :
          LET r == create_kb(TheStore, kb, F)
          IN  SetStore(r.S) /\ Record("create_kb", kb, NoKey, F, r.result)
    /\ KeepChat

DoDeleteKb ==
    /\ \E kb \in KBNames, F \in OneOf(DeleteKbSteps) :
          LET r == delete_kb(TheStore, kb, F)
          IN  SetStore(r.S) /\ Record("delete_kb", kb, NoKey, F, r.result)
    /\ KeepChat

DoListKbs ==
    /\ \E F \in OneOf(ReadSteps) :
          Record("list_kbs", None, NoKey, F, list_kbs(TheStore, F))
    /\ UNCHANGED kbVars /\ KeepChat

DoUploadDocument ==
    /\ \E kb \in KBNames, f \in Filenames, c \in Contents,
          F \in OneOf(UploadSteps), fb \in FailBatches :
          LET r == upload_document(TheStore, kb, f, c.np, c.n, c.ty, F, fb)
          IN  SetStore(r.S) /\ Record("upload_document", kb, f, F, r.result)
    /\ KeepChat

DoListDocuments ==
    /\ \E kb \in KBNames, F \in OneOf(ReadSteps) :
          Record("list_documents", kb, NoKey, F, list_documents(TheStore, kb, F))
    /\ UNCHANGED kbVars /\ KeepChat

DoGetDocument ==
    /\ \E kb \in KBNames, f \in Filenames, F \in OneOf(ReadSteps) :
          Record("get_document", kb, f, F, get_document(TheStore, kb, f, F))
    /\ UNCHANGED kbVars /\ KeepChat

DoDeleteDocument ==
    /\ \E kb \in KBNames, f \in Filenames, F \in OneOf(DeleteDocSteps) :
       \E m \in MessagesOf(F) :
          LET r == delete_document(TheStore, kb, f, F, m)
          IN  SetStore(r.S) /\ Record("delete_document", kb, f, F, r.result)
    /\ KeepChat

DoUpdateDocument ==
    /\ \E kb \in KBNames, f \in Filenames, c \in Contents,
          Fd \in OneOf(DeleteDocSteps), fb \in FailBatches :
       \E m \in MessagesOf(Fd) :
       \E Fu \in UploadFailures(TheStore, kb, f, Fd, m) :
          LET r == update_document(TheStore, kb, f, c.np, c.n, c.ty, Fd, m,
                                   Fu, fb)
          IN  SetStore(r.S)
              /\ Record("update_document", kb, f, Fd \cup Fu, r.result)
    /\ KeepChat

DoSearch ==
    /\ \E kb \in KBNames, F \in OneOf(ChatSteps) :
       \E hits \in Hits(points, kb, F) :
          RecordHits("search", kb, F, search(TheStore, kb, hits, F),
                     search(TheStore, kb, hits, F), hits)
    /\ UNCHANGED kbVars /\ KeepChat

\* kbs: the values of kb_name the caller may pass; use_routing is passed
\* as the dispatcher passes it, kb_name is None
DoChat(tool, kbs, sids) ==
    /\ \E kb \in kbs, F \in OneOf(ChatSteps) :
       \E c \in ChatInputs(kb, sids, {MaxLen}, {MaxLen}),
          hits \in Hits(points, kb, F) :
          LET r == chat_service(TheStore, sessions, kb, c.sid, kb = None, 0,
                                c.qlen, c.alen, hits, F, memory_token_limit)
          IN  /\ sessions' = r.sessions
              /\ RecordHits(tool, kb, F, r.result,
                            IF kb = None \/ r.result.isNone
                            THEN Fail("no_search")
                            ELSE search(TheStore, kb, hits, F), hits)
    /\ UNCHANGED kbVars /\ KeepSessions

DoClearHistory ==
    /\ \E sid \in SessionIds \cup {Unhashable} :
          LET r == clear_chat_history(sessions, sid)
          IN  sessions' = r.sessions
              /\ Record("clear_history", None, NoKey, {}, r.result)
    /\ UNCHANGED kbVars /\ KeepSessions

DoHealth ==
    /\ \E F \in OneOf(HealthSteps) :
          Record("health", None, NoKey, F, health_check(F))
    /\ UNCHANGED kbVars /\ KeepChat

\* ------------------------------------------------------------------------
\* Specification Spec: the RAG service called operation by operation
\* ------------------------------------------------------------------------
Call ==
    /\ calls < MaxCalls
    /\ calls' = calls + 1
    /\ UNCHANGED <<traceVars, prog, prev, fn>>

CallCreateKb == Call /\ DoCreateKb
CallDeleteKb == Call /\ DoDeleteKb
CallListKbs == Call /\ DoListKbs
CallUploadDocument == Call /\ DoUploadDocument
CallListDocuments == Call /\ DoListDocuments
CallGetDocument == Call /\ DoGetDocument
CallDeleteDocument == Call /\ DoDeleteDocument
CallUpdateDocument == Call /\ DoUpdateDocument
CallSearch == Call /\ DoSearch
\* use_routing is a parameter of chat that the body never reads
CallChat == Call /\ DoChat("chat", KBNames \cup {None}, ChatSids)
CallClearHistory == Call /\ DoClearHistory
CallHealth == Call /\ DoHealth

\* ------------------------------------------------------------------------
\* Tool dispatcher: execute_mcp_tool, one invocation at a time (the
\* coroutine has no await between its first and its last statement)
\* ------------------------------------------------------------------------
\* the "arguments" member of a tools/call request: a map with the tool's
\* required keys, a map that lacks one, or a JSON value that is no map
ArgKinds == {"ok", "missing", "not_a_map"}

IdleInv == [pc |-> "idle", tool |-> None, rid |-> 0, args |-> "ok",
            result |-> NoneResult, error |-> None, exc |-> None]

\* the exception the dispatcher's branch for the tool raises on its
\* arguments (None: it raises none)
ArgsError(tool, args) ==
    IF tool = UnknownTool THEN "ValueError"
    ELSE IF tool \in {"list_kbs", "health"} THEN None
    ELSE IF args = "not_a_map" THEN "TypeError"
    ELSE IF args = "missing" /\ tool # "search" THEN "KeyError"
    ELSE None

\* MCPToolTracer.start_tool_trace / LangfuseMCPToolTracer.start_tool_trace:
\* TRUE iff the call raises; the Langfuse tracer iterates arguments.items()
start_raises(kind, args) == kind = "langfuse" /\ args = "not_a_map"

NoTrace == [opened |-> 0, closed |-> 0, error |-> None, exc |-> None]

\* the finally block's end_tool_trace call, as the trace log sees it
close_trace(log, rid, error, exc) ==
    [log EXCEPT ![rid] = [@ EXCEPT !.closed = @ + 1, !.error = error,
                                   !.exc = exc]]

DispatchFrame == UNCHANGED <<calls, prev, fn, invocations, tracer_kind,
                             active_traces, trace_log, tool_stats,
                             completed, prog>>

\* the first statements of execute_mcp_tool: open the trace
Start ==
    /\ inv.pc = "idle"
    /\ invocations < MaxInvocations
    /\ \E tool \in Tools \cup {UnknownTool}, args \in ArgKinds :
          /\ invocations' = invocations + 1
          /\ IF start_raises(tracer_kind, args)
             THEN /\ inv' = IdleInv
                  /\ trace_log' = trace_log @@ (invocations + 1 :> NoTrace)
                  /\ UNCHANGED <<active_traces, completed>>
             ELSE /\ inv' = [IdleInv EXCEPT !.pc = "running", !.tool = tool,
                                            !.rid = invocations + 1,
                                            !.args = args]
                  /\ active_traces' = active_traces \cup {invocations + 1}
                  /\ trace_log' = trace_log @@
                         (invocations + 1 :> [NoTrace EXCEPT !.opened = 1])
                  /\ UNCHANGED completed
    /\ UNCHANGED <<calls, prev, fn, last, tracer_kind, tool_stats, prog, kbVars,
                   chatVars>>

Running(tool) == inv.pc = "running" /\ inv.tool = tool

\* the service call returned r: result_data = r, on to the finally block
ReturnsMap(r) == inv' = [inv EXCEPT !.pc = "finally", !.result = r]

\* result_data is what the service call of this step returned
Returns == ReturnsMap(last'.result)

\* auto_routing_chat adds two keys to the map the service returned
ReturnsRouted ==
    ReturnsMap([last'.result EXCEPT !.keys = @ \cup {"auto_routed",
                                                      "session_id"}])

\* except Exception as e: error_info = str(e); raise
Raises(e) ==
    inv' = [inv EXCEPT !.pc = "finally", !.error = e, !.exc = e]

ArgsFail ==
    /\ Raises(ArgsError(inv.tool, inv.args))
    /\ UNCHANGED <<last, kbVars, chatVars>>

BadArgs == ArgsError(inv.tool, inv.args) # None

ExecCreateKb ==
    /\ Running("create_kb") /\ DispatchFrame
    /\ IF BadArgs THEN ArgsFail ELSE DoCreateKb /\ Returns

ExecDeleteKb ==
    /\ Running("delete_kb") /\ DispatchFrame
    /\ IF BadArgs THEN ArgsFail ELSE DoDeleteKb /\ Returns

ExecListKbs ==
    /\ Running("list_kbs") /\ DispatchFrame
    /\ DoListKbs /\ Returns

ExecUploadDocument ==
    /\ Running("upload_document") /\ DispatchFrame
    /\ IF BadArgs THEN ArgsFail ELSE DoUploadDocument /\ Returns

ExecListDocuments ==
    /\ Running("list_documents") /\ DispatchFrame
    /\ IF BadArgs THEN ArgsFail ELSE DoListDocuments /\ Returns

ExecGetDocument ==
    /\ Running("get_document") /\ DispatchFrame
    /\ IF BadArgs THEN ArgsFail ELSE DoGetDocument /\ Returns

ExecDeleteDocument ==
    /\ Running("delete_document") /\ DispatchFrame
    /\ IF BadArgs THEN ArgsFail ELSE DoDeleteDocument /\ Returns

ExecUpdateDocument ==
    /\ Running("update_document") /\ DispatchFrame
    /\ IF BadArgs THEN ArgsFail ELSE DoUpdateDocument /\ Returns

\* search without kb_name is answered by the dispatcher itself
ExecSearch ==
    /\ Running("search") /\ DispatchFrame
    /\ IF BadArgs THEN ArgsFail
       ELSE IF inv.args = "missing"
       THEN /\ ReturnsMap(Fail("kb_required"))
            /\ UNCHANGED <<last, kbVars, chatVars>>
       ELSE DoSearch /\ Returns

ExecChat ==
    /\ Running("chat") /\ DispatchFrame
    /\ IF BadArgs THEN ArgsFail
       ELSE DoChat("chat", KBNames \cup {None}, ChatSids) /\ Returns

\* kb_name=None, use_routing=True; session_id or a fresh uuid
ExecAutoRoutingChat ==
    /\ Running("auto_routing_chat") /\ DispatchFrame
    /\ IF BadArgs THEN ArgsFail
       ELSE DoChat("auto_routing_chat", {None}, ChatSids \ {None})
            /\ ReturnsRouted

ExecClearHistory ==
    /\ Running("clear_history") /\ DispatchFrame
    /\ IF BadArgs THEN ArgsFail ELSE DoClearHistory /\ Returns

ExecHealth ==
    /\ Running("health") /\ DispatchFrame
    /\ DoHealth /\ Returns

ExecUnknown ==
    /\ Running(UnknownTool) /\ DispatchFrame
    /\ ArgsFail

\* the finally block: end_tool_trace, then the invocation returns or raises
End ==
    /\ inv.pc = "finally"
    /\ tool_stats' = end_tool_trace(tracer_kind, tool_stats, inv.tool,
                                    inv.result, inv.error)
    /\ trace_log' = close_trace(trace_log, inv.rid, inv.error, inv.exc)
    /\ active_traces' = active_traces \ {inv.rid}
    /\ completed' = [completed EXCEPT ![inv.tool] = @ + 1]
    /\ inv' = IdleInv
    /\ UNCHANGED <<calls, prev, fn, last, invocations, tracer_kind, prog, kbVars,
                   chatVars>>

\* ------------------------------------------------------------------------
\* ChatEngine.chat called from several threads: one statement per step.
\* The engine takes no lock, so the statements of two calls interleave
\* ------------------------------------------------------------------------
IdleChat == [pc |-> "idle", sid |-> None, call |-> 0, qlen |-> 0,
             alen |-> 0, llmOk |-> TRUE, detached |-> FALSE, hist |-> <<>>,
             outcome |-> None]

ChatFrame == UNCHANGED <<kbVars, calls, prev, fn, last, traceVars, prog,
                         memory_token_limit>>

\* the call of caller c moves to position pc
Goto(c, pc) == chat' = [chat EXCEPT ![c].pc = pc]

\* the call of caller c ends: "ok" with an answer, "error" from the except
\* branch
Finish(c, outcome) ==
    chat' = [chat EXCEPT ![c] = [IdleChat EXCEPT !.outcome = outcome]]

\* the list object of session sid is replaced or deleted: a caller inside
\* the trim loop keeps its reference to the old list
Detach(ch, sid, old) ==
    [c \in Callers |->
        IF ch[c].pc = "trim_loop" /\ ch[c].sid = sid /\ ~ch[c].detached
        THEN [ch[c] EXCEPT !.detached = TRUE, !.hist = old]
        ELSE ch[c]]

ChatStart ==
    /\ chat_calls < MaxChatCalls
    /\ \E c \in Callers, sid \in SessionIds, q \in QueryLens,
          a \in AnswerLens, ok \in BOOLEAN :
          /\ chat[c].pc = "idle"
          /\ chat' = [chat EXCEPT ![c] =
                        [IdleChat EXCEPT !.pc = "check", !.sid = sid,
                                         !.call = chat_calls + 1,
                                         !.qlen = q, !.alen = a,
                                         !.llmOk = ok]]
    /\ chat_calls' = chat_calls + 1
    /\ UNCHANGED <<sessions, llm_order, cleared>> /\ ChatFrame

\* if session_id not in self._sessions
ChatCheck ==
    /\ \E c \in Callers :
          /\ chat[c].pc = "check"
          /\ Goto(c, IF sessions[chat[c].sid].present THEN "getref"
                     ELSE "create")
    /\ UNCHANGED <<sessions, chat_calls, llm_order, cleared>> /\ ChatFrame

\* self._sessions[session_id] = []
ChatCreate ==
    /\ \E c \in Callers :
          /\ chat[c].pc = "create"
          /\ sessions' = [sessions EXCEPT ![chat[c].sid] =
                             [present |-> TRUE, turns |-> <<>>]]
          /\ chat' = [Detach(chat, chat[c].sid, sessions[chat[c].sid].turns)
                        EXCEPT ![c].pc = "getref"]
    /\ UNCHANGED <<chat_calls, llm_order, cleared>> /\ ChatFrame

\* history = self._sessions[session_id]; the prompt is built from it
ChatGetRef ==
    /\ \E c \in Callers :
          /\ chat[c].pc = "getref"
          /\ IF sessions[chat[c].sid].present
             THEN Goto(c, "llm")
             ELSE Finish(c, "error")
    /\ UNCHANGED <<sessions, chat_calls, llm_order, cleared>> /\ ChatFrame

\* response = self.llm_client.generate(prompt)
ChatLLM ==
    /\ \E c \in Callers :
          /\ chat[c].pc = "llm"
          /\ llm_order' = Append(llm_order,
                                 [call |-> chat[c].call, sid |-> chat[c].sid,
                                  qlen |-> chat[c].qlen,
                                  alen |-> chat[c].alen,
                                  ok |-> chat[c].llmOk])
          /\ IF chat[c].llmOk
             THEN Goto(c, "append_user")
             ELSE Finish(c, "error")
    /\ UNCHANGED <<sessions, chat_calls, cleared>> /\ ChatFrame

\* self._sessions[session_id].append({"role": "user", ...})
ChatAppendUser ==
    /\ \E c \in Callers :
          /\ chat[c].pc = "append_user"
          /\ IF sessions[chat[c].sid].present
             THEN /\ sessions' = [sessions EXCEPT ![chat[c].sid].turns =
                                    Append(@, Turn("user", chat[c].call,
                                                   chat[c].qlen))]
                  /\ Goto(c, "append_asst")
             ELSE /\ Finish(c, "error")
                  /\ UNCHANGED sessions
    /\ UNCHANGED <<chat_calls, llm_order, cleared>> /\ ChatFrame

\* self._sessions[session_id].append({"role": "assistant", ...})
ChatAppendAsst ==
    /\ \E c \in Callers :
          /\ chat[c].pc = "append_asst"
          /\ IF sessions[chat[c].sid].present
             THEN /\ sessions' = [sessions EXCEPT ![chat[c].sid].turns =
                                    Append(@, Turn("assistant", chat[c].call,
                                                   chat[c].alen))]
                  /\ Goto(c, "trim_enter")
             ELSE /\ Finish(c, "error")
                  /\ UNCHANGED sessions
    /\ UNCHANGED <<chat_calls, llm_order, cleared>> /\ ChatFrame

\* _trim_history: return if the session is gone, else take the list
ChatTrimEnter ==
    /\ \E c \in Callers :
          /\ chat[c].pc = "trim_enter"
          /\ IF sessions[chat[c].sid].present
             THEN Goto(c, "trim_loop")
             ELSE Finish(c, "ok")
    /\ UNCHANGED <<sessions, chat_calls, llm_order, cleared>> /\ ChatFrame

\* one test of the while condition and, when it holds, history.pop(0)
ChatTrimStep ==
    /\ \E c \in Callers :
          /\ chat[c].pc = "trim_loop"
          /\ LET h == IF chat[c].detached THEN chat[c].hist
                      ELSE sessions[chat[c].sid].turns
             IN  IF OverLimit(TotalChars(h), memory_token_limit) /\ Len(h) > 2
                 THEN IF chat[c].detached
                      THEN /\ chat' = [chat EXCEPT ![c].hist = Tail(h)]
                           /\ UNCHANGED sessions
                      ELSE /\ sessions' = [sessions EXCEPT
                                             ![chat[c].sid].turns = Tail(h)]
                           /\ UNCHANGED chat
                 ELSE /\ Finish(c, "ok")
                      /\ UNCHANGED sessions
    /\ UNCHANGED <<chat_calls, llm_order, cleared>> /\ ChatFrame

\* ChatEngine.clear_history called while chat calls run
ChatClear ==
    /\ cleared < MaxClears
    /\ \E sid \in SessionIds :
          /\ sessions' = clear_history(sessions, sid).sessions
          /\ chat' = IF sessions[sid].present
                     THEN Detach(chat, sid, sessions[sid].turns)
                     ELSE chat
    /\ cleared' = cleared + 1
    /\ UNCHANGED <<chat_calls, llm_order>> /\ ChatFrame

\* ------------------------------------------------------------------------
\* ProgressiveDocumentProcessor.extract_with_smart_routing.  Scores are in
\* hundredths, costs in units of 0.0001 dollar; the pages of an attempt are
\* named by the attempt's number
\* ------------------------------------------------------------------------
fast_cost == 0
balanced_cost == 0
premium_cost == 13

TIER_COSTS(tier) ==
    IF tier = "fast" THEN fast_cost
    ELSE IF tier = "balanced" THEN balanced_cost
    ELSE premium_cost

Scores == {0, 60, 75, 90}
Targets == {70, 80}
NoPages == 0
NoBest == [pages |-> NoPages, score |-> 0, tier |-> None, cost |-> 0, len |-> 0]

IdleProg == [pc |-> "idle"]

\* the tier sequence of one call
TierSequence(enable_fast, enable_balanced, enable_premium, start_tier) ==
    (IF enable_fast /\ start_tier = "fast" THEN <<"fast">> ELSE <<>>)
    \o (IF enable_balanced THEN <<"balanced">> ELSE <<>>)
    \o (IF enable_premium THEN <<"premium">> ELSE <<>>)

\* what one _extract_tier call does: returns pages with a score, raises a
\* quota error (429), or raises another error
Outcomes ==
    {[kind |-> "ok", score |-> sc] : sc \in Scores}
    \cup {[kind |-> "quota", score |-> 0], [kind |-> "error", score |-> 0]}

\* the number of pages behind a quality score: check_quality scores an
\* empty page list 0 and every non-empty one above 0
pages_len(npages, score) == IF score = 0 THEN 0 ELSE npages

\* one run of _extract_tier: the tier, whether it was the emergency
\* fallback, how it ended ("ok", "quota", "error") and the number of pages
\* it returned (0 when it raised)
Run(tier, fallback, kind, len) ==
    [tier |-> tier, fallback |-> fallback, kind |-> kind, len |-> len]

append_attempted_front(tiers_attempted, tier) == <<tier>> \o tiers_attempted

\* tiers_attempted.append(tier) at the head of the loop body
append_attempted(tiers_attempted, tier) == Append(tiers_attempted, tier)

\* one iteration of the tier loop on tier p.tiers[p.i]: out is the outcome
\* of the tier's extraction, fb the outcome of the fallback extraction
tier_iteration(p, out, fb) ==
    LET tier == p.tiers[p.i]
        last_tier == p.i = Len(p.tiers)
        attempted == append_attempted(p.tiers_attempted, tier)
        n == Len(p.attempts) + 1
        len == pages_len(p.npages, out.score)
        att == [tier |-> tier, score |-> out.score, pages |-> n]
        fbatt == [tier |-> "fast", score |-> fb.score, pages |-> n]
        cost == len * TIER_COSTS(tier)
        raised == Append(p.ran, Run(tier, FALSE, out.kind, 0))
        next(q, stop) ==
            [q EXCEPT !.pc = IF stop \/ last_tier THEN "return" ELSE "loop",
                      !.i = p.i + 1]
    IN  IF out.kind = "ok"
        THEN LET q == [p EXCEPT
                         !.tiers_attempted = attempted,
                         !.attempts = Append(@, att),
                         !.ran = Append(@, Run(tier, FALSE, "ok", len)),
                         !.total_cost = @ + cost,
                         !.best = IF out.score > p.best_quality
                                  THEN [pages |-> n, score |-> out.score,
                                        tier |-> tier, cost |-> cost,
                                        len |-> len]
                                  ELSE @,
                         !.best_quality = IF out.score > @ THEN out.score
                                          ELSE @]
             IN  next(q, out.score >= p.target \/ ~p.auto_retry)
        ELSE IF out.kind = "quota" /\ tier # "fast" /\ p.enable_fast
        THEN IF fb.kind = "ok"
             THEN next([p EXCEPT
                          !.tiers_attempted = attempted,
                          !.attempts = Append(@, fbatt),
                          !.ran = Append(raised,
                                         Run("fast", TRUE, "ok",
                                             pages_len(p.npages, fb.score))),
                          !.best = [pages |-> n, score |-> fb.score,
                                    tier |-> "fast", cost |-> 0,
                                    len |-> pages_len(p.npages, fb.score)],
                          !.best_quality = fb.score], TRUE)
             ELSE next([p EXCEPT !.tiers_attempted = attempted,
                                 !.ran = Append(raised,
                                                Run("fast", TRUE, "error", 0))],
                       ~p.auto_retry)
        ELSE next([p EXCEPT !.tiers_attempted = attempted, !.ran = raised],
                  ~p.auto_retry)

extraction_result_best_cost(p) ==
    IF p.best # NoBest
    THEN [success |-> TRUE, pages |-> p.best.pages, len |-> p.best.len,
          tier_used |-> p.best.tier, tier_attempted |-> p.tiers_attempted,
          quality_score |-> p.best.score, cost |-> p.best.cost]
    ELSE [success |-> FALSE, pages |-> NoPages, len |-> 0,
          tier_used |-> p.start_tier,
          tier_attempted |-> p.tiers_attempted, quality_score |-> 0,
          cost |-> 0]

\* the ExtractionResult built after the loop; best_result is truthy iff it
\* was ever assigned
extraction_result(p) ==
    IF p.best # NoBest
    THEN [success |-> TRUE, pages |-> p.best.pages, len |-> p.best.len,
          tier_used |-> p.best.tier, tier_attempted |-> p.tiers_attempted,
          quality_score |-> p.best.score, cost |-> p.total_cost]
    ELSE [success |-> FALSE, pages |-> NoPages, len |-> 0,
          tier_used |-> p.start_tier,
          tier_attempted |-> p.tiers_attempted, quality_score |-> 0,
          cost |-> p.total_cost]

ProgFrame == UNCHANGED <<kbVars, calls, prev, fn, last, traceVars, chatVars>>

ProgStart ==
    /\ prog.pc = "idle"
    /\ \E ef \in BOOLEAN, eb \in BOOLEAN, ep \in BOOLEAN,
          st \in {"fast", "balanced", "premium"}, tq \in Targets, ar \in BOOLEAN,
          np \in 1..MaxPages :
          LET tiers == TierSequence(ef, eb, ep, st)
          IN  prog' = [pc |-> IF tiers = <<>> THEN "return" ELSE "loop",
                       tiers |-> tiers, i |-> 1, enable_fast |-> ef,
                       enable_balanced |-> eb, enable_premium |-> ep,
                       start_tier |-> st, target |-> tq, auto_retry |-> ar,
                       npages |-> np, best |-> NoBest, best_quality |-> 0,
                       tiers_attempted |-> <<>>, total_cost |-> 0,
                       attempts |-> <<>>, ran |-> <<>>, result |-> None]
    /\ ProgFrame

ProgTier ==
    /\ prog.pc = "loop"
    /\ \E out \in Outcomes :
       \E fb \in IF out.kind = "quota" THEN Outcomes \ {out}
                 ELSE {[kind |-> "error", score |-> 0]} :
          prog' = tier_iteration(prog, out,
                                 IF fb.kind = "ok" THEN fb
                                 ELSE [kind |-> "error", score |-> 0])
    /\ ProgFrame

ProgReturn ==
    /\ prog.pc = "return"
    /\ prog' = [prog EXCEPT !.pc = "done", !.result = extraction_result(prog)]
    /\ ProgFrame

\* ------------------------------------------------------------------------
\* Functions checked on their own: one call per behaviour, its inputs drawn
\* from small sets
\* ------------------------------------------------------------------------
IdleFn == [pc |-> "idle"]

FnFrame == UNCHANGED <<kbVars, calls, prev, last, traceVars, chatVars, prog>>

\* the sequences of at most n distinct elements of S
UniqueSeqs(S, n) ==
    UNION {{s \in [1..m -> S] : \A i, j \in 1..m : i # j => s[i] # s[j]} :
              m \in 0..n}

\* the elements of a sequence
Range(s) == {s[i] : i \in DOMAIN s}

\* ------------------------------------------------------------------------
\* Retriever._rrf_fusion.  Scores are 1/(k + rank) sums; they are kept as
\* exact integers, every term scaled by the product of the denominators
\* ------------------------------------------------------------------------
DocIds == {"a", "b", "c", "d"}

RECURSIVE RRFScale(_, _)
\* (k + 1) * ... * (k + n): the common denominator of the terms 1/(k + r)
RRFScale(k, n) == IF n = 0 THEN 1 ELSE (k + n) * RRFScale(k, n - 1)

rrf_term_zero_based(k, rank) == RRFScale(k, MaxRank) \div (k + rank - 1)

\* 1.0 / (k + rank)
rrf_term(k, rank) == RRFScale(k, MaxRank) \div (k + rank)

\* {r["id"]: rank for rank, r in enumerate(results, start=1)}: the last
\* rank wins when an id occurs twice
rank_map(results) ==
    [id \in Range(results) |->
        CHOOSE r \in DOMAIN results :
            /\ results[r] = id
            /\ \A r2 \in DOMAIN results : results[r2] = id => r2 <= r]

\* the rrf_scores dict
rrf_scores(dense_results, sparse_results, k) ==
    LET dense_ranks == rank_map(dense_results)
        sparse_ranks == rank_map(sparse_results)
        all_ids == DOMAIN dense_ranks \cup DOMAIN sparse_ranks
    IN  [doc_id \in all_ids |->
            (IF doc_id \in DOMAIN dense_ranks
             THEN rrf_term(k, dense_ranks[doc_id]) ELSE 0)
            + (IF doc_id \in DOMAIN sparse_ranks
               THEN rrf_term(k, sparse_ranks[doc_id]) ELSE 0)]

RECURSIVE sort_by_score(_)
\* list.sort(key=score, reverse=True): stable, elements of equal score keep
\* the order they had in the list
sort_by_score(s) ==
    IF s = <<>> THEN <<>>
    ELSE LET front == sort_by_score(SubSeq(s, 1, Len(s) - 1))
             x == s[Len(s)]
             n == Cardinality({i \in DOMAIN front : front[i].score >= x.score})
         IN  SubSeq(front, 1, n) \o <<x>> \o SubSeq(front, n + 1, Len(front))

\* the orders in which a Python set of these ids can be iterated
IterationOrders(ids) ==
    {s \in [1..Cardinality(ids) -> ids] :
        \A i, j \in DOMAIN s : i # j => s[i] # s[j]}

\* Retriever._rrf_fusion: order is the order in which `for doc_id in
\* all_ids` iterates the set
rrf_fusion(dense_results, sparse_results, k, order) ==
    LET scores == rrf_scores(dense_results, sparse_results, k)
    IN  sort_by_score([i \in DOMAIN order |->
                          [id |-> order[i], score |-> scores[order[i]]]])

FusionStart ==
    /\ fn.pc = "idle"
    /\ \E dense \in UniqueSeqs(DocIds, MaxRank),
          sparse \in UniqueSeqs(DocIds, MaxRank) :
       \E order \in IterationOrders(Range(dense) \cup Range(sparse)) :
          fn' = [pc |-> "fusion", dense |-> dense, sparse |-> sparse,
                 order |-> order, fused |-> <<>>]
    /\ FnFrame

FusionReturn ==
    /\ fn.pc = "fusion"
    /\ fn' = [fn EXCEPT !.pc = "fused",
                        !.fused = rrf_fusion(fn.dense, fn.sparse, rrf_k,
                                             fn.order)]
    /\ FnFrame

NextFusion == FusionStart \/ FusionReturn

\* ------------------------------------------------------------------------
\* RAGService._deduplicate_results.  A text is a sequence of characters
\* ------------------------------------------------------------------------
Letters == <<"a", "b", "c", "d", "e", "f", "g", "h", "i", "j">>

\* the payload texts a search result can carry here: ten letters, the same
\* in upper case and padded, nine and eight of the ten, other letters,
\* white space only, and no text
Texts ==
    {Letters,
     <<" ", "A", "B">> \o SubSeq(Letters, 3, Len(Letters)) \o <<" ">>,
     SubSeq(Letters, 1, Len(Letters) - 1),
     SubSeq(Letters, 1, Len(Letters) - 2),
     <<"x", "y", "z">>,
     <<" ">>,
     <<>>}

\* str.lower on one character
lower_char(c) ==
    CASE c = "A" -> "a"
      [] c = "B" -> "b"
      [] OTHER -> c

RECURSIVE lstrip(_)
lstrip(t) == IF t # <<>> /\ t[1] = " " THEN lstrip(Tail(t)) ELSE t

RECURSIVE rstrip(_)
rstrip(t) ==
    IF t # <<>> /\ t[Len(t)] = " " THEN rstrip(SubSeq(t, 1, Len(t) - 1)) ELSE t

\* content.lower().strip()
normalize(content) ==
    rstrip(lstrip([i \in DOMAIN content |-> lower_char(content[i])]))

\* len(set(a) & set(b))
overlap(a, b) == Cardinality(Range(a) \cap Range(b))

\* max(len(set(a)), len(set(b)))
max_chars(a, b) ==
    IF Cardinality(Range(a)) >= Cardinality(Range(b))
    THEN Cardinality(Range(a)) ELSE Cardinality(Range(b))

\* the inner loop compares the candidate with the last kept content only
is_duplicate_of_last(normalized, seen_contents) ==
    /\ seen_contents # <<>>
    /\ Len(normalized) > 0
    /\ Len(seen_contents[Len(seen_contents)]) > 0
    /\ 10 * overlap(normalized, seen_contents[Len(seen_contents)])
          > 9 * max_chars(normalized, seen_contents[Len(seen_contents)])

\* the inner loop: overlap / max(...) > 0.9 against some seen content, both
\* non-empty
is_duplicate(normalized, seen_contents) ==
    \E n \in DOMAIN seen_contents :
        /\ Len(normalized) > 0
        /\ Len(seen_contents[n]) > 0
        /\ 10 * overlap(normalized, seen_contents[n])
              > 9 * max_chars(normalized, seen_contents[n])

RECURSIVE dedup_loop(_, _, _)
\* the loop over results: deduplicated and seen_contents grow together
dedup_loop(results, deduplicated, seen_contents) ==
    IF results = <<>> THEN deduplicated
    ELSE LET content == Head(results)
             normalized == normalize(content)
         IN  IF content = <<>>
             THEN dedup_loop(Tail(results), deduplicated, seen_contents)
             ELSE IF is_duplicate(normalized, seen_contents)
             THEN dedup_loop(Tail(results), deduplicated, seen_contents)
             ELSE dedup_loop(Tail(results), Append(deduplicated, content),
                             Append(seen_contents, normalized))

\* RAGService._deduplicate_results
deduplicate_results(results) == dedup_loop(results, <<>>, <<>>)

DedupStart ==
    /\ fn.pc = "idle"
    /\ \E m \in 0..MaxResults : \E results \in [1..m -> Texts] :
          fn' = [pc |-> "dedup", results |-> results, deduplicated |-> <<>>]
    /\ FnFrame

DedupReturn ==
    /\ fn.pc = "dedup"
    /\ fn' = [fn EXCEPT !.pc = "deduplicated",
                        !.deduplicated = deduplicate_results(fn.results)]
    /\ FnFrame

NextDedup == DedupStart \/ DedupReturn

\* ------------------------------------------------------------------------
\* DocumentProcessor.chunk_text.  A page text is a sequence of characters;
\* the texts here are words and blanks, with no header line, no paragraph
\* break and no sentence end, so a text longer than chunk_size goes from
\* _chunk_markdown_text through _split_by_semantic_units and
\* _split_by_sentences, each of which strips it, to _split_by_characters
\* ------------------------------------------------------------------------
PageTexts == UNION {[1..n -> {"x", " "}] : n \in 0..MaxChars}

\* an Optional[int] argument: <<>> is None
OptionalInts(S) == {<<>>} \cup {<<n>> : n \in S}

\* `argument or self.default`: None and 0 both give way to the default
or_default(argument, default) ==
    IF argument = <<>> \/ argument[1] = 0 THEN default ELSE argument[1]

\* str.strip
strip(t) == rstrip(lstrip(t))

\* text[start:end] as Python slices: a negative index counts from the end,
\* and indexes beyond either end are clamped
slice(text, start, end) ==
    LET clamp(i) == IF i < 0 THEN (IF i + Len(text) < 0 THEN 0 ELSE i + Len(text))
                    ELSE IF i > Len(text) THEN Len(text) ELSE i
    IN  SubSeq(text, clamp(start) + 1, clamp(end))

\* whether _chunk_markdown_text hands the text on, stripped, down to
\* _split_by_characters
needs_characters(text, chunk_size) ==
    Len(text) > chunk_size /\ Len(strip(text)) > chunk_size

\* _chunk_markdown_text for a text that does not reach _split_by_characters:
\* a short text as it is, otherwise what _split_by_semantic_units makes of
\* the one stripped paragraph
chunk_markdown_text(text, chunk_size) ==
    IF Len(text) <= chunk_size THEN <<text>>
    ELSE IF strip(text) = <<>> THEN <<>>
    ELSE <<strip(text)>>

\* the chunk index starts again at 0 on every page
emit_chunks_index_per_page(chunks, page_chunks, page_num, chunk_index) ==
    chunks \o [i \in DOMAIN SelectSeq(page_chunks, LAMBDA c : strip(c) # <<>>) |->
                  [text |-> SelectSeq(page_chunks, LAMBDA c : strip(c) # <<>>)[i],
                   page |-> page_num, chunk_index |-> i - 1]]

\* the inner loop of chunk_text: every page chunk that is not blank is
\* appended with its page and the next chunk_index
emit_chunks(chunks, page_chunks, page_num, chunk_index) ==
    chunks \o [i \in DOMAIN SelectSeq(page_chunks, LAMBDA c : strip(c) # <<>>) |->
                  [text |-> SelectSeq(page_chunks, LAMBDA c : strip(c) # <<>>)[i],
                   page |-> page_num, chunk_index |-> chunk_index + i - 1]]

\* chunk_text after the chunks of one page are known: emit them, go to the
\* next page
next_page(f, page_chunks) ==
    LET chunks == emit_chunks(f.chunks, page_chunks, f.page_num, f.chunk_index)
    IN  [f EXCEPT !.pc = "pages", !.chunks = chunks,
                  !.chunk_index = f.chunk_index + (Len(chunks) - Len(f.chunks)),
                  !.page_num = f.page_num + 1,
                  !.text = <<>>, !.start = 0, !.char_chunks = <<>>,
                  !.passes = 0]

\* start never matters below this value: from there on text[start:end] is
\* empty, the loop condition holds and the break is not taken, so the states
\* below it are kept as one
StartFloor(text, chunk_size) == 0 - (Len(text) + chunk_size)

\* one pass through the while loop of _split_by_characters.  A loop that
\* ends appends at most one chunk per character, so a list cut at
\* Len(text) + 1 chunks differs from the program's only in loops that do
\* not end.  passes is the number of passes made so far, modulo 2
split_by_characters_pass(f) ==
    LET end == f.start + f.chunk_size
        chunk == slice(f.text, f.start, end)
        chunks == IF strip(chunk) # <<>> /\ Len(f.char_chunks) <= Len(f.text)
                  THEN Append(f.char_chunks, chunk) ELSE f.char_chunks
        next == f.start + f.chunk_size - f.chunk_overlap
        start == IF next < StartFloor(f.text, f.chunk_size)
                 THEN StartFloor(f.text, f.chunk_size) ELSE next
    IN  IF end >= Len(f.text) \/ ~(start < Len(f.text))
        THEN next_page(f, chunks)
        ELSE [f EXCEPT !.start = start, !.char_chunks = chunks,
                       !.passes = (f.passes + 1) % 2]

ChunkStart ==
    /\ fn.pc = "idle"
    /\ \E n \in 0..MaxPages : \E pages \in [1..n -> PageTexts] :
       \E self_chunk_size \in 1..MaxSize, self_chunk_overlap \in 0..(MaxSize + 1),
          chunk_size \in OptionalInts(1..MaxSize),
          chunk_overlap \in OptionalInts(0..(MaxSize + 1)) :
          fn' = [pc |-> "pages", pages |-> pages,
                 chunk_size |-> or_default(chunk_size, self_chunk_size),
                 chunk_overlap |-> or_default(chunk_overlap, self_chunk_overlap),
                 page_num |-> 1, chunks |-> <<>>, chunk_index |-> 0,
                 text |-> <<>>, start |-> 0, char_chunks |-> <<>>,
                 passes |-> 0]
    /\ FnFrame

\* one page of the loop of chunk_text, up to the while loop if the page
\* reaches it
ChunkPage ==
    /\ fn.pc = "pages"
    /\ fn.page_num <= Len(fn.pages)
    /\ fn' = IF needs_characters(fn.pages[fn.page_num], fn.chunk_size)
             THEN [fn EXCEPT !.pc = "characters",
                             !.text = strip(fn.pages[fn.page_num]),
                             !.start = 0, !.char_chunks = <<>>]
             ELSE next_page(fn, chunk_markdown_text(fn.pages[fn.page_num],
                                                    fn.chunk_size))
    /\ FnFrame

ChunkCharacters ==
    /\ fn.pc = "characters"
    /\ fn' = split_by_characters_pass(fn)
    /\ FnFrame

ChunkReturn ==
    /\ fn.pc = "pages"
    /\ fn.page_num > Len(fn.pages)
    /\ fn' = [fn EXCEPT !.pc = "chunked"]
    /\ FnFrame

NextChunk == ChunkStart \/ ChunkPage \/ ChunkCharacters \/ ChunkReturn

\* ------------------------------------------------------------------------
\* One invocation of execute_mcp_tool with a Langfuse client whose calls
\* can fail: what the caller receives
\* ------------------------------------------------------------------------
\* the Langfuse client calls end_tool_trace makes
SinkCalls == {"generation", "event", "flush"}

\* what the dispatcher's branch does once the arguments are accepted: the
\* service returns a map with success true or false, or raises
BodyOutcomes == {"returns_ok", "returns_fail", "raises"}

Returned(r) == [raised |-> None, result |-> r]

Raised(e) == [raised |-> e, result |-> NoneResult]

\* the try block of execute_mcp_tool
tool_body(tool, args, body) ==
    IF ArgsError(tool, args) # None THEN Raised(ArgsError(tool, args))
    ELSE IF body = "raises" THEN Raised("ServiceError")
    ELSE IF body = "returns_ok"
    THEN Returned(Result({"success", "message"}, TRUE, "ok", None, 0))
    ELSE Returned(Fail("failed"))

\* the exception raised inside the try block of
\* LangfuseMCPToolTracer.end_tool_trace when the client calls in failed
\* raise: a generation for the LLM and VLM tools with create_event as its
\* fallback, create_event for the other tools, then flush
sink_error(tool, failed) ==
    IF tool \in {"chat", "auto_routing_chat", "upload_document",
                 "update_document"}
    THEN IF "generation" \in failed /\ "event" \in failed THEN "SinkError"
         ELSE IF "flush" \in failed THEN "SinkError" ELSE None
    ELSE IF "event" \in failed \/ "flush" \in failed THEN "SinkError"
    ELSE None

\* except Exception as e: logger.error(...); nothing is raised again
logged(e) == None

\* end_tool_trace without its except clause
trace_end_uncaught(kind, available, tool, failed) ==
    IF kind = "langfuse" /\ available THEN sink_error(tool, failed) ELSE None

\* the exception that leaves end_tool_trace (None: it returns).
\* MCPToolTracer calls no sink; LangfuseMCPToolTracer returns at once when
\* the client is not available, and its `except Exception` logs whatever
\* the try block raised
trace_end(kind, available, tool, failed) ==
    IF kind = "langfuse" /\ available
    THEN logged(sink_error(tool, failed))
    ELSE None

\* the finally block: an exception leaving end_tool_trace replaces the
\* return value or the exception of the try block
finally_block(outcome, e) == IF e # None THEN Raised(e) ELSE outcome

\* execute_mcp_tool as a whole
execute_mcp_tool(kind, available, tool, args, body, failed) ==
    IF start_raises(kind, args) THEN Raised("AttributeError")
    ELSE finally_block(tool_body(tool, args, body),
                       trace_end(kind, available, tool, failed))

TraceStart ==
    /\ fn.pc = "idle"
    /\ \E kind \in TracerKinds, available \in BOOLEAN,
          tool \in Tools \cup {UnknownTool}, args \in ArgKinds,
          body \in BodyOutcomes, failed \in SUBSET SinkCalls :
          fn' = [pc |-> "start", kind |-> kind, available |-> available,
                 tool |-> tool, args |-> args, body |-> body,
                 failed |-> failed, closed |-> FALSE,
                 outcome |-> Raised(None)]
    /\ FnFrame

\* start_tool_trace, before the try block
TraceOpen ==
    /\ fn.pc = "start"
    /\ fn' = IF start_raises(fn.kind, fn.args)
             THEN [fn EXCEPT !.pc = "returned",
                             !.outcome = Raised("AttributeError")]
             ELSE [fn EXCEPT !.pc = "try"]
    /\ FnFrame

TraceBody ==
    /\ fn.pc = "try"
    /\ fn' = [fn EXCEPT !.pc = "finally",
                        !.outcome = tool_body(fn.tool, fn.args, fn.body)]
    /\ FnFrame

TraceEnd ==
    /\ fn.pc = "finally"
    /\ fn' = [fn EXCEPT !.pc = "returned", !.closed = TRUE,
                        !.outcome = finally_block(fn.outcome,
                                        trace_end(fn.kind, fn.available,
                                                  fn.tool, fn.failed))]
    /\ FnFrame

NextTrace == TraceStart \/ TraceOpen \/ TraceBody \/ TraceEnd

\* ------------------------------------------------------------------------
\* The arguments a tool trace records.  A value is a string of some length
\* or a value that is no string; what is recorded in its place is the value
\* itself, its first characters, or a placeholder
\* ------------------------------------------------------------------------
ArgKeys == {"file_content", "content", "api_key", "password", "secret",
            "query"}

ArgValues ==
    {[kind |-> "str", len |-> n] :
        n \in {1, sanitize_limit + 1, filter_limit + 1}}
    \cup {[kind |-> "other", len |-> 0]}

\* the argument maps with at most n keys
ArgMaps(n) ==
    UNION {[K -> ArgValues] : K \in {K \in SUBSET ArgKeys : Cardinality(K) <= n}}

Raw(value) == [form |-> "raw", kind |-> value.kind, len |-> value.len]

\* value[:limit] + "..."
Truncated(value, limit) == [form |-> "truncated", kind |-> "str", len |-> limit]

Placeholder(text, n) == [form |-> text, kind |-> "str", len |-> n]

\* ToolTraceContext._sanitize_arguments
sanitize_arguments(args) ==
    [key \in DOMAIN args |->
        IF key \in {"file_content", "content"}
        THEN IF args[key].kind = "str"
             THEN Placeholder("<N bytes>", args[key].len)
             ELSE Placeholder("<content>", 0)
        ELSE IF key \in {"api_key", "password", "secret"}
        THEN Placeholder("<redacted>", 0)
        ELSE IF args[key].kind = "str" /\ args[key].len > sanitize_limit
        THEN Truncated(args[key], sanitize_limit)
        ELSE Raw(args[key])]

\* len(str(value)): a value that is no string has some text form, here of
\* one character
str_len(value) == IF value.kind = "str" THEN value.len ELSE 1

\* LangfuseMCPToolTracer._filter_sensitive_args
filter_sensitive_args(arguments) ==
    [key \in DOMAIN arguments |->
        IF key = "file_content"
        THEN Placeholder("<base64 data, N chars>", str_len(arguments[key]))
        ELSE IF arguments[key].kind = "str" /\ arguments[key].len > filter_limit
        THEN Truncated(arguments[key], filter_limit)
        ELSE Raw(arguments[key])]

\* the ways a tool call is traced: start_tool_trace of either tracer, as
\* execute_mcp_tool calls it, and the `with tracer.trace_tool(...)` form
TracePaths == TracerKinds \cup {"context_manager"}

\* the arguments the trace hands to the sink as its input.
\* MCPToolTracer.start_tool_trace only builds the context and hands on
\* nothing
recorded_arguments(path, arguments) ==
    CASE path = "langfuse" -> filter_sensitive_args(arguments)
      [] path = "context_manager" -> sanitize_arguments(arguments)
      [] OTHER -> <<>>

SanitizeStart ==
    /\ fn.pc = "idle"
    /\ \E path \in TracePaths, arguments \in ArgMaps(MaxArgs) :
          fn' = [pc |-> "arguments", path |-> path, arguments |-> arguments,
                 recorded |-> <<>>]
    /\ FnFrame

SanitizeRecord ==
    /\ fn.pc = "arguments"
    /\ fn' = [fn EXCEPT !.pc = "recorded",
                        !.recorded = recorded_arguments(fn.path, fn.arguments)]
    /\ FnFrame

NextSanitize == SanitizeStart \/ SanitizeRecord

\* ------------------------------------------------------------------------
\* Initial states and specifications
\* ------------------------------------------------------------------------
InitCommon ==
    /\ collections = {}
    /\ points = EmptyBag
    /\ master = EmptyBag
    /\ calls = 0
    /\ prev = NoCall
    /\ fn = IdleFn
    /\ last = NoCall
    /\ inv = IdleInv
    /\ invocations = 0
    /\ active_traces = {}
    /\ trace_log = <<>>
    /\ tool_stats = <<>>
    /\ completed = [t \in Tools \cup {UnknownTool} |-> 0]
    /\ sessions = [s \in SessionIds |-> NoSession]
    /\ chat = [c \in Callers |-> IdleChat]
    /\ chat_calls = 0
    /\ llm_order = <<>>
    /\ cleared = 0
    /\ prog = IdleProg

Init ==
    /\ InitCommon
    /\ tracer_kind = "mcp"
    /\ memory_token_limit = default_memory_token_limit

Next ==
    \/ CallCreateKb
    \/ CallDeleteKb
    \/ CallListKbs
    \/ CallUploadDocument
    \/ CallListDocuments
    \/ CallGetDocument
    \/ CallDeleteDocument
    \/ CallUpdateDocument
    \/ CallSearch
    \/ CallChat
    \/ CallClearHistory
    \/ CallHealth

Spec == Init /\ [][Next]_vars

\* the server with either tracer installed, serving tool invocations
InitDispatch ==
    /\ InitCommon
    /\ tracer_kind \in TracerKinds
    /\ memory_token_limit = default_memory_token_limit

NextDispatch ==
    \/ Start
    \/ ExecCreateKb
    \/ ExecDeleteKb
    \/ ExecListKbs
    \/ ExecUploadDocument
    \/ ExecListDocuments
    \/ ExecGetDocument
    \/ ExecDeleteDocument
    \/ ExecUpdateDocument
    \/ ExecSearch
    \/ ExecChat
    \/ ExecAutoRoutingChat
    \/ ExecClearHistory
    \/ ExecHealth
    \/ ExecUnknown
    \/ End

SpecDispatch == InitDispatch /\ [][NextDispatch]_vars

\* one chat engine used by NumCallers threads
InitChat ==
    /\ InitCommon
    /\ tracer_kind = "mcp"
    /\ memory_token_limit \in MemoryLimits

NextChat ==
    \/ ChatStart
    \/ ChatCheck
    \/ ChatCreate
    \/ ChatGetRef
    \/ ChatLLM
    \/ ChatAppendUser
    \/ ChatAppendAsst
    \/ ChatTrimEnter
    \/ ChatTrimStep
    \/ ChatClear

SpecChat == InitChat /\ [][NextChat]_vars

\* a caller that creates KBs, uploads documents and deletes them, one call
\* after the other, and keeps the results of its last two calls
DocCall ==
    /\ calls < MaxDocCalls
    /\ calls' = calls + 1
    /\ prev' = last
    /\ UNCHANGED <<traceVars, prog, fn>>

DocsCreateKb == DocCall /\ DoCreateKb
DocsUploadDocument == DocCall /\ DoUploadDocument
DocsDeleteDocument == DocCall /\ DoDeleteDocument

NextDocs ==
    \/ DocsCreateKb
    \/ DocsUploadDocument
    \/ DocsDeleteDocument

SpecDocs == Init /\ [][NextDocs]_vars

SpecFusion == Init /\ [][NextFusion]_vars

SpecDedup == Init /\ [][NextDedup]_vars

\* one tool call traced: the arguments that are recorded
SpecSanitize == Init /\ [][NextSanitize]_vars

\* one tool invocation with a sink that can fail
SpecTrace == Init /\ [][NextTrace]_vars

\* one call of chunk_text; the thread that runs it keeps running
SpecChunk == Init /\ [][NextChunk]_vars /\ WF_vars(NextChunk)

\* one call of extract_with_smart_routing
NextProg ==
    \/ ProgStart
    \/ ProgTier
    \/ ProgReturn

SpecProg == Init /\ [][NextProg]_vars

\* ------------------------------------------------------------------------
\* Properties of the service (specification Spec)
\* ------------------------------------------------------------------------
\* the result is a map whose success field is true
Succeeded(r) == ~r.isNone /\ "success" \in r.keys /\ r.success

\* the steps of create_kb that the atomicity statement names
CreateKbStepsNamed == {"embed", "create", "descriptor", "master_embed",
                       "master_upsert"}

\* C2: when a step of create_kb fails for a name that had neither a
\* collection nor a master-index entry, the call returns success=false and
\* afterwards the name still has neither a collection nor a master entry
C2_CreateKbLeavesNothing ==
    [][(/\ calls' = calls + 1
        /\ last'.op = "create_kb"
        /\ last'.failed \cap CreateKbStepsNamed # {}
        /\ last'.kb \notin collections
        /\ ~BagIn(last'.kb, master))
       => (/\ ~last'.result.success
           /\ last'.kb \notin collections'
           /\ ~BagIn(last'.kb, master'))]_vars

\* C3: a call that ends in failure loses no stored point, and the only
\* points it adds are chunks of the file it was called with
C3_FailedCallKeepsPoints ==
    [][(calls' = calls + 1 /\ ~Succeeded(last'.result))
       => (/\ \A q \in DOMAIN points :
                CopiesIn(q, points') >= CopiesIn(q, points)
           /\ \A q \in DOMAIN points' :
                CopiesIn(q, points') > CopiesIn(q, points)
                => (q.coll = last'.kb /\ q.filename = last'.filename))]_vars

\* C4: every service operation returns a map that carries a success field
C4_ResultHasSuccess ==
    last.op # None => (~last.result.isNone /\ "success" \in last.result.keys)

\* C6: no two chunk points share (kb_name, filename, chunk_index)
C6_ChunkKeyUnique ==
    \A q \in DOMAIN points :
        q.type = "document"
        => (/\ CopiesIn(q, points) = 1
            /\ \A r \in DOMAIN points :
                  (/\ r.type = "document"
                   /\ r.kb_name = q.kb_name
                   /\ r.filename = q.filename
                   /\ r.chunk_index = q.chunk_index) => r = q)

\* C7: every existing KB collection holds exactly one point whose _type is
\* "collection_metadata"
C7_OneDescriptorPerKb ==
    \A kb \in collections :
        CountType(points, kb, "collection_metadata") = 1

\* C17: when a collaborator of a search or chat call on a named KB fails
\* (the vector store, the retrieval with its embedding and reranking, or
\* the LLM), the call returns a map with success false and a message
C17_FailureSurfaced ==
    (/\ last.op \in {"search", "chat"}
     /\ last.kb # None
     /\ last.failed # {})
    => /\ ~last.result.isNone
       /\ "success" \in last.result.keys
       /\ ~last.result.success
       /\ "message" \in last.result.keys

\* C18: after delete_kb returned success for a KB, the KB has no collection
\* and no entry in the master index, so the Router does not return it
C18_DeletedKbGone ==
    (last.op = "delete_kb" /\ Succeeded(last.result))
    => /\ last.kb \notin collections
       /\ ~BagIn(last.kb, master)
       /\ \A k \in BagToSet(master) : route(<<k>>, {}, 1)[1] # last.kb

\* C19: when upload_document succeeds on a KB right after create_kb
\* succeeded for it, list_documents on the KB succeeds and has a row for
\* the uploaded filename whose chunks_count is the chunks_count the upload
\* returned (the rows are keyed by filename, so there is one at most)
C19_UploadIsListed ==
    [][(/\ last.op = "create_kb"
        /\ Succeeded(last.result)
        /\ last'.op = "upload_document"
        /\ last'.kb = last.kb
        /\ Succeeded(last'.result))
       => LET S == Store(collections', points', master')
              rows == docs_by_file(points', last'.kb)
          IN  /\ Succeeded(list_documents(S, last'.kb, {}))
              /\ last'.filename \in DOMAIN rows
              /\ rows[last'.filename] = last'.result.count]_vars

C22_StoredPointIdentity ==
    [][last'.op = "upload_document"
       => \A q \in DOMAIN points' :
             CopiesIn(q, points') > CopiesIn(q, points)
             => (/\ q.type = "document"
                 /\ q.kb_name = last'.kb
                 /\ q.filename = last'.filename)]_vars

\* C29: between calls the master index holds at most one entry per kb_name
\* and no entry for a kb_name whose collection does not exist, whatever
\* create_kb and delete_kb calls were made and whichever of their
\* vector-store steps failed
C29_MasterMatchesCollections ==
    \A kb \in KBNames :
        /\ CopiesIn(kb, master) <= 1
        /\ BagIn(kb, master) => kb \in collections

\* ------------------------------------------------------------------------
\* Properties of repeated document deletion (specification SpecDocs)
\* ------------------------------------------------------------------------
\* the last two calls were delete_document on the same KB and filename
DeletedTwice ==
    /\ prev.op = "delete_document"
    /\ last.op = "delete_document"
    /\ last.kb = prev.kb
    /\ last.filename = prev.filename

\* C20: a delete_document call that reaches a KB holding points of the
\* file with no collaborator failing succeeds and leaves no point of the
\* file; a second such call right after a successful one returns the
\* not-found failure and leaves the stored points as they were
C20_DeleteTwice ==
    [][/\ (/\ last'.op = "delete_document"
           /\ last'.failed = {}
           /\ last'.kb \in collections
           /\ CountFile(points, last'.kb, last'.filename) > 0)
          => (/\ Succeeded(last'.result)
              /\ CountFile(points', last'.kb, last'.filename) = 0
              /\ \A q \in DOMAIN points :
                    ~(q.coll = last'.kb /\ q.filename = last'.filename)
                    => CopiesIn(q, points') = CopiesIn(q, points))
       /\ (/\ DeletedTwice'
           /\ Succeeded(prev'.result)
           /\ last'.failed = {})
          => (/\ ~last'.result.isNone
              /\ ~last'.result.success
              /\ last'.result.msg = "doc_not_found"
              /\ points' = points
              /\ collections' = collections)]_vars

\* the second of two delete_document calls in a row on an existing KB has
\* returned not found after the first succeeded
C20_Witness ==
    /\ DeletedTwice
    /\ Succeeded(prev.result)
    /\ last.failed = {}
    /\ last.result.msg = "doc_not_found"
    /\ last.kb \in collections

\* ------------------------------------------------------------------------
\* Properties of the chat engine under concurrent calls (SpecChat)
\* ------------------------------------------------------------------------
RECURSIVE RunInOrder(_, _, _)
\* the sessions after the chat calls of order ran one at a time
RunInOrder(sess, order, limit) ==
    IF order = <<>> THEN sess
    ELSE RunInOrder(chat_engine_chat(sess, Head(order).sid, Head(order).call,
                                     Head(order).qlen, Head(order).alen,
                                     Head(order).ok, limit).sessions,
                    Tail(order), limit)

\* C1: when all chat calls have ended and no history was cleared, every
\* session's history is the one the calls produce when run one at a time
\* in the order their LLM calls returned
C1_HistoryLinearizable ==
    ((\A c \in Callers : chat[c].pc = "idle") /\ cleared = 0)
    => sessions = RunInOrder([s \in SessionIds |-> NoSession], llm_order,
                             memory_token_limit)

\* the estimated tokens of the turns (characters / 4) are at most limit,
\* or fewer than 3 turns are held
WithinLimitOrShort(turns, limit) ==
    TotalChars(turns) <= 4 * limit \/ Len(turns) < 3

\* C16: whenever no chat call is running, so after every chat call made
\* with a session_id, every session's estimated token count is at most
\* memory_token_limit or the session holds fewer than 3 turns
C16_SessionTrimmed ==
    (\A c \in Callers : chat[c].pc = "idle")
    => \A sid \in SessionIds :
          sessions[sid].present
          => WithinLimitOrShort(sessions[sid].turns, memory_token_limit)

\* after the calls have ended a session holds 3 turns, the oldest of them
\* from a later call than the first: the trim dropped turns and stopped
\* within the limit
C16_Witness ==
    /\ \A c \in Callers : chat[c].pc = "idle"
    /\ \E sid \in SessionIds :
          /\ sessions[sid].present
          /\ Len(sessions[sid].turns) = 3
          /\ Head(sessions[sid].turns).call > 1
          /\ TotalChars(sessions[sid].turns) <= 4 * memory_token_limit

\* ------------------------------------------------------------------------
\* Properties of progressive extraction (SpecProg)
\* ------------------------------------------------------------------------
MaxOf(S) == CHOOSE x \in S : \A y \in S : y <= x

BestScore == MaxOf({prog.attempts[k].score : k \in DOMAIN prog.attempts})

\* C10: when some attempt of the call scored above zero, the result
\* carries the pages of an attempt with the highest score of the call and
\* tier_used names the tier of that attempt
C10_ResultIsBestAttempt ==
    (/\ prog.pc = "done"
     /\ prog.attempts # <<>>
     /\ BestScore > 0)
    => \E k \in DOMAIN prog.attempts :
          /\ prog.attempts[k].score = BestScore
          /\ prog.result.pages = prog.attempts[k].pages
          /\ prog.result.tier_used = prog.attempts[k].tier

\* the tiers of the runs recorded in a sequence of runs
TiersOf(runs) == [k \in DOMAIN runs |-> runs[k].tier]

IsPrefix(s, t) == Len(s) <= Len(t) /\ s = SubSeq(t, 1, Len(s))

\* C11: a run that ends in a quota error is followed by at most one more
\* run, the emergency fallback on the fast tier, and that fallback runs
\* only when no earlier run of the call was on the fast tier; the fallback
\* is the last run of the call whether it returned pages or raised
C11_FallbackOnceThenStop ==
    prog.pc # "idle"
    => \A k \in DOMAIN prog.ran :
          /\ (prog.ran[k].kind = "quota" /\ ~prog.ran[k].fallback)
             => /\ Len(prog.ran) <= k + 1
                /\ Len(prog.ran) = k + 1 => prog.ran[k + 1].fallback
          /\ prog.ran[k].fallback
             => /\ k = Len(prog.ran)
                /\ \A j \in 1..(k - 1) : prog.ran[j].tier # "fast"

\* C12 as stated: tiers_attempted of a result lists every extractor run of
\* the call in order, the emergency fallback included, and is a prefix of
\* the tier sequence of the call
C12_AttemptedListsEveryRun ==
    prog.pc = "done"
    => /\ prog.result.tier_attempted = TiersOf(prog.ran)
       /\ IsPrefix(prog.result.tier_attempted, prog.tiers)

\* C12 amended: tiers_attempted of a result lists in order the tiers the
\* loop ran, without the emergency fallback run, and is a prefix of the
\* tier sequence of the call
C12_AttemptedIsLoopPrefix ==
    prog.pc = "done"
    => /\ prog.result.tier_attempted
            = TiersOf(SelectSeq(prog.ran, LAMBDA r : ~r.fallback))
       /\ IsPrefix(prog.result.tier_attempted, prog.tiers)

\* a finished call that ran the emergency fallback after the second tier of
\* three
C12_Witness ==
    /\ prog.pc = "done"
    /\ Len(prog.result.tier_attempted) = 2
    /\ Len(prog.tiers) = 3
    /\ \E k \in DOMAIN prog.ran : prog.ran[k].fallback

TierRank(tier) ==
    CASE tier = "fast" -> 1 [] tier = "balanced" -> 2 [] tier = "premium" -> 3

TierEnabled(p, tier) ==
    CASE tier = "fast" -> p.enable_fast
      [] tier = "balanced" -> p.enable_balanced
      [] tier = "premium" -> p.enable_premium

\* C13: the tier sequence of a call is the enabled tiers from start_tier
\* forward in the order fast, balanced, premium, and every extractor run of
\* the call is on an enabled tier that does not precede start_tier
C13_TiersFromStartTier ==
    prog.pc # "idle"
    => /\ prog.tiers
            = SelectSeq(<<"fast", "balanced", "premium">>,
                        LAMBDA t : /\ TierEnabled(prog, t)
                                   /\ TierRank(t) >= TierRank(prog.start_tier))
       /\ \A k \in DOMAIN prog.ran :
             /\ TierEnabled(prog, prog.ran[k].tier)
             /\ TierRank(prog.ran[k].tier) >= TierRank(prog.start_tier)

\* C14: the result has success true exactly when some extractor run of the
\* call, the emergency fallback included, returned a non-empty list of
\* pages, and a successful result carries a non-empty list of pages
C14_SuccessIffPages ==
    prog.pc = "done"
    => /\ prog.result.success <=> \E k \in DOMAIN prog.ran : prog.ran[k].len > 0
       /\ prog.result.success => prog.result.len > 0

RECURSIVE RunsCost(_)
RunsCost(runs) ==
    IF runs = <<>> THEN 0
    ELSE Head(runs).len * TIER_COSTS(Head(runs).tier) + RunsCost(Tail(runs))

\* C15: the cost of a result is the sum over every extractor run of the
\* call of the pages the run returned times the cost per page of its tier
C15_CostIsSumOverRuns ==
    prog.pc = "done" => prog.result.cost = RunsCost(prog.ran)

\* a successful result whose cost is more than the cost of the tier whose
\* pages it carries
C15_Witness ==
    /\ prog.pc = "done"
    /\ prog.result.success
    /\ prog.result.tier_used # "premium"
    /\ prog.result.cost > 0

\* ------------------------------------------------------------------------
\* Properties of the dispatcher and the tracer (specification SpecDispatch)
\* ------------------------------------------------------------------------
\* the KBs the Router can return as its top KB: route() over a ranking
\* that starts with any KB of the master index
RoutedKbs == {route(<<k>>, {}, 1)[1] : k \in BagToSet(master)}

\* C5: an auto_routing_chat invocation (kb_name None, use_routing true)
\* with a KB in the master index returns a successful result whose kb_name
\* is a KB the Router returns
C5_RoutedChatSucceeds ==
    (/\ inv.pc = "finally"
     /\ inv.tool = "auto_routing_chat"
     /\ inv.exc = None
     /\ RoutedKbs # {})
    => (Succeeded(inv.result) /\ inv.result.kb_name \in RoutedKbs)

InFlight(rid) == inv.pc # "idle" /\ inv.rid = rid

\* C8: every invocation that has started opened exactly one trace; while
\* it runs the trace is open and not closed; once it has returned or
\* raised the trace is closed exactly once, with the error it raised
C8_OneTracePerInvocation ==
    \A rid \in 1..invocations :
        /\ rid \in DOMAIN trace_log
        /\ trace_log[rid].opened = 1
        /\ IF InFlight(rid)
           THEN trace_log[rid].closed = 0 /\ rid \in active_traces
           ELSE /\ trace_log[rid].closed = 1
                /\ rid \notin active_traces
                /\ trace_log[rid].error = trace_log[rid].exc

StatsOf(tool) == IF tool \in DOMAIN tool_stats THEN tool_stats[tool]
                 ELSE ZeroStats

\* C9: when no invocation is in flight, each tool's calls counter equals
\* the number of its completed invocations and success + error counts
C9_CountersExact ==
    inv.pc = "idle"
    => \A tool \in Tools \cup {UnknownTool} :
          /\ StatsOf(tool).total_calls = completed[tool]
          /\ StatsOf(tool).total_calls
                = StatsOf(tool).success_count + StatsOf(tool).error_count


\* ------------------------------------------------------------------------
\* Properties of SpecFusion
\* ------------------------------------------------------------------------
\* the place at which an id was first inserted: its position in the dense
\* list, and after those the ids that only the sparse list holds
InsertionIndex(dense, sparse, id) ==
    LET both == dense \o sparse
    IN  CHOOSE i \in DOMAIN both :
            both[i] = id /\ \A j \in DOMAIN both : both[j] = id => i <= j

\* C23: two ids of equal fused score appear in the fused list in the order
\* in which they were inserted, dense list first; so dense [a,b,c] and
\* sparse [b,a,d] always fuse to a, b, c, d.
C23_TiesInInsertionOrder ==
    fn.pc = "fused" =>
        /\ \A i, j \in DOMAIN fn.fused :
              (i < j /\ fn.fused[i].score = fn.fused[j].score) =>
                  InsertionIndex(fn.dense, fn.sparse, fn.fused[i].id)
                      < InsertionIndex(fn.dense, fn.sparse, fn.fused[j].id)
        /\ (fn.dense = <<"a", "b", "c">> /\ fn.sparse = <<"b", "a", "d">>) =>
              [i \in DOMAIN fn.fused |-> fn.fused[i].id] = <<"a", "b", "c", "d">>

\* the sum of 1/(k + rank) over the places of a list that hold the id
ListTerm(list, id, k) ==
    IF \E i \in DOMAIN list : list[i] = id
    THEN RRFScale(k, MaxRank) \div (k + CHOOSE i \in DOMAIN list : list[i] = id)
    ELSE 0

\* C24: the fused list holds each id of either list exactly once, and the
\* score of an entry is the sum of 1/(k + rank), ranks counted from 1, over
\* the lists that contain the id.
C24_FusedOncePerIdWithScoreSum ==
    fn.pc = "fused" =>
        /\ Len(fn.fused) = Cardinality(Range(fn.dense) \cup Range(fn.sparse))
        /\ \A id \in Range(fn.dense) \cup Range(fn.sparse) :
              Cardinality({i \in DOMAIN fn.fused : fn.fused[i].id = id}) = 1
        /\ \A i \in DOMAIN fn.fused :
              /\ fn.fused[i].id \in Range(fn.dense) \cup Range(fn.sparse)
              /\ fn.fused[i].score =
                    ListTerm(fn.dense, fn.fused[i].id, rrf_k)
                    + ListTerm(fn.sparse, fn.fused[i].id, rrf_k)

\* a fusion whose lists share an id and each hold an id of their own
C24_Witness ==
    /\ fn.pc = "fused"
    /\ Range(fn.dense) \cap Range(fn.sparse) # {}
    /\ Range(fn.dense) \ Range(fn.sparse) # {}
    /\ Range(fn.sparse) \ Range(fn.dense) # {}
    /\ Len(fn.fused) = 3


\* ------------------------------------------------------------------------
\* Properties of SpecDedup
\* ------------------------------------------------------------------------
\* for each two results retained, ten times the overlap of the character
\* sets of their normalised texts and nine times the larger of the two sets
RetainedPairs ==
    {<<10 * overlap(normalize(fn.deduplicated[i]), normalize(fn.deduplicated[j])),
       9 * max_chars(normalize(fn.deduplicated[i]), normalize(fn.deduplicated[j]))>> :
        <<i, j>> \in {p \in (DOMAIN fn.deduplicated) \X (DOMAIN fn.deduplicated) :
                        /\ p[1] # p[2]
                        /\ max_chars(normalize(fn.deduplicated[p[1]]),
                                     normalize(fn.deduplicated[p[2]])) > 0}}

C26_IndexContiguousPagesOrdered ==
    fn.pc \in {"pages", "characters", "chunked"} =>
        \A i \in DOMAIN fn.chunks :
            /\ fn.chunks[i].chunk_index = i - 1
            /\ i > 1 => fn.chunks[i - 1].page <= fn.chunks[i].page

\* a call that returned chunks of two pages, one page split in several
C26_Witness ==
    /\ fn.pc = "chunked"
    /\ Len(fn.chunks) >= 3
    /\ fn.chunks[1].page = 1
    /\ fn.chunks[Len(fn.chunks)].page = 2

\* C30: chunk_text terminates with a finite list of chunks for every list of
\* pages, every chunk_size >= 1 and every chunk_overlap >= 0, a
\* chunk_overlap of chunk_size or more included.
C30_ChunkTextTerminates == (fn.pc = "pages") ~> (fn.pc = "chunked")


\* ------------------------------------------------------------------------
\* Properties of SpecTrace
\* ------------------------------------------------------------------------
\* C27: a failure of the observability sink while the trace is emitted does
\* not change what the caller receives: the result or the error is the one
\* the same invocation yields with a sink that works.
C27_SinkFailureKeepsOutcome ==
    fn.pc = "returned" =>
        fn.outcome = execute_mcp_tool(fn.kind, fn.available, fn.tool,
                                      fn.args, fn.body, {})

\* an invocation under the Langfuse tracer whose end_tool_trace ran into a
\* failing client call, for a call that returned and for one that raised
C27_Witness ==
    /\ fn.pc = "returned"
    /\ fn.closed
    /\ fn.kind = "langfuse"
    /\ fn.available
    /\ sink_error(fn.tool, fn.failed) # None
    /\ fn.outcome.raised = None
    /\ fn.outcome.result.success


\* ------------------------------------------------------------------------
\* Properties of SpecSanitize
\* ------------------------------------------------------------------------
\* C28: whichever tracer is installed, the recorded arguments hold a
\* byte-count placeholder, never the raw value, under file_content and
\* content, and the redaction marker, never the raw value, under api_key,
\* password and secret.
C28_SensitiveArgumentsNotRecorded ==
    fn.pc = "recorded" =>
        \A key \in DOMAIN fn.recorded :
            /\ key \in {"file_content", "content"} =>
                  fn.recorded[key].form \in {"<N bytes>", "<content>",
                                             "<base64 data, N chars>"}
            /\ key \in {"api_key", "password", "secret"} =>
                  fn.recorded[key].form = "<redacted>"

====
